---- MODULE Spec2Model ----
(***************************************************************************)
(* gcp_devops_agent/main.py: the tool list_cloud_run_services, run by any  *)
(* number of callers of the hosting executor against one Cloud Run         *)
(* provider.                                                               *)
(*                                                                         *)
(* A string is a sequence of tokens; "/" is a token of its own, so that    *)
(* str.split('/') is computed, and an f-string is the concatenation of its *)
(* literal pieces and its interpolated values.                             *)
(***************************************************************************)
EXTENDS Integers, Sequences, FiniteSets, TLC

\* Longest descriptor sequence the provider serves.
MaxItems == 2

\* The invocations the executor may have in flight at once.
Procs == {1, 2}

ProjectIds == {<<"p1">>, <<"p2">>}
Regions == {<<"r1">>, <<"r2">>}

\* Descriptor names: a well-formed slash-delimited one and one without '/'.
Names == {<<"projects", "/", "p", "/", "services", "/", "b">>, <<"a">>}

\* str(e) of the faults the provider raises.
Texts == {<<>>, <<"boom">>}

Range(s) == {s[k] : k \in 1..Len(s)}

----------------------------------------------------------------------------
(* Exceptions: the classes of google.api_core.exceptions the handlers name, *)
(* a parent of one of them, and a fault outside that library.               *)

\* Method resolution order of each class a fault may have.
MRO(cls) ==
    CASE cls = "PermissionDenied" ->
            <<"PermissionDenied", "Forbidden", "ClientError",
              "GoogleAPICallError", "GoogleAPIError", "Exception">>
      [] cls = "NotFound" ->
            <<"NotFound", "ClientError", "GoogleAPICallError",
              "GoogleAPIError", "Exception">>
      [] cls = "Forbidden" ->
            <<"Forbidden", "ClientError", "GoogleAPICallError",
              "GoogleAPIError", "Exception">>
      [] cls = "RuntimeError" -> <<"RuntimeError", "Exception">>
      [] OTHER -> <<cls>>

\* The faults of the provider are instances of Exception; KeyboardInterrupt
\* and SystemExit are signals of the host process, not faults of the provider.
FaultClasses == {"PermissionDenied", "NotFound", "Forbidden", "RuntimeError"}

NoFault == [cls |-> "None", text |-> <<>>]
Faults == {[cls |-> c, text |-> t] : c \in FaultClasses, t \in Texts}

\* isinstance(e, base)
IsInstance(e, base) == base \in Range(MRO(e.cls))

----------------------------------------------------------------------------
(* The provider: one project/region holds services; what it answers there  *)
(* is a script: a fault at the client's construction, at the list call, or *)
(* after the items of the lazy sequence, or no fault at all.               *)

ItemSeqs == UNION {[1..n -> Names] : n \in 0..MaxItems}

Scripts ==
    {[at |-> "none", fault |-> NoFault, items |-> s] : s \in ItemSeqs}
    \cup {[at |-> a, fault |-> e, items |-> <<>>] :
             a \in {"construct", "list"}, e \in Faults}
    \cup {[at |-> "iter", fault |-> e, items |-> s] :
             e \in Faults, s \in ItemSeqs}

Providers ==
    {[project |-> p, region |-> r, script |-> s] :
        p \in ProjectIds, r \in Regions, s \in Scripts}

\* The location the provider holds, as the provider spells it.
ProviderScope(pv) ==
    <<"projects/">> \o pv.project \o <<"/locations/">> \o pv.region

\* run_v2.ServicesClient(): the fault it raises, if any.
ProviderConstruct(pv) ==
    IF pv.script.at = "construct" THEN pv.script.fault ELSE NoFault

\* The fault list_services(parent=...) raises, if any: an unknown location is
\* not found.
ProviderListFault(pv, parent) ==
    IF parent # ProviderScope(pv) THEN [cls |-> "NotFound", text |-> <<"boom">>]
    ELSE IF pv.script.at = "list" THEN pv.script.fault
    ELSE NoFault

\* The lazy sequence list_services returns: the descriptors still to come and
\* the fault that ends them, if any.
ProviderPager(pv) ==
    [items |-> pv.script.items,
     tail |-> IF pv.script.at = "iter" THEN pv.script.fault ELSE NoFault]

----------------------------------------------------------------------------
(* The function's pure parts.                                              *)

\* Faulty variant of ScopeString: the two arguments exchanged.
ScopeSwapped(project_id, region) ==
    <<"projects/">> \o region \o <<"/locations/">> \o project_id

\* f"projects/{project_id}/locations/{region}"
ScopeString(project_id, region) ==
    <<"projects/">> \o project_id \o <<"/locations/">> \o region

\* str.split('/'): the segments between the '/' tokens, at least one.
RECURSIVE SplitFrom(_, _, _)
SplitFrom(s, k, segs) ==
    IF k > Len(s) THEN segs
    ELSE IF s[k] = "/" THEN SplitFrom(s, k + 1, Append(segs, <<>>))
    ELSE SplitFrom(s, k + 1,
             [segs EXCEPT ![Len(segs)] = Append(segs[Len(segs)], s[k])])

Split(s) == SplitFrom(s, 1, << <<>> >>)

\* Faulty variant of ShortName: index 0 instead of -1.
ShortNameFirst(name) == Split(name)[1]

\* service.name.split('/')[-1]
ShortName(name) == Split(name)[Len(Split(name))]

NoServicesMsg == <<"No Cloud Run services found.">>

\* Faulty variant of ReturnValue: an empty listing reported as an error.
ReturnValueEmptyIsError(service_names) ==
    IF service_names = <<>> THEN [error |-> NoServicesMsg]
    ELSE [services |-> service_names]

\* Lines 39-42: the value returned when the sequence was consumed.
ReturnValue(service_names) ==
    IF service_names = <<>>
    THEN [services |-> <<>>, message |-> NoServicesMsg]
    ELSE [services |-> service_names]

PermissionDeniedMsg ==
    <<"Permission denied. Please ensure the agent has the '",
      "Cloud Run Viewer", "' role.">>

\* Faulty variant of NotFoundMsg: the region left out.
NotFoundMsgNoRegion(project_id, region) ==
    <<"Project '">> \o project_id \o <<"' not found.">>

NotFoundMsg(project_id, region) ==
    <<"Project '">> \o project_id \o <<"' or region '">> \o region
        \o <<"' not found.">>

\* Faulty variant of UnexpectedMsg: str(e) left out.
UnexpectedMsgGeneric(e) == <<"An unexpected error occurred.">>

UnexpectedMsg(e) == <<"An unexpected error occurred: ">> \o e.text

\* Faulty variants of ExceptClauses: the catch-all tried first; no catch-all.
ExceptCatchAllFirst == <<"Exception", "PermissionDenied", "NotFound">>

ExceptNoCatchAll == <<"PermissionDenied", "NotFound">>

\* The except clauses, in the order they are tried.
ExceptClauses == <<"PermissionDenied", "NotFound", "Exception">>

\* The first clause that matches e; 0 when none does.
MatchingClause(e) ==
    LET hits == {k \in 1..Len(ExceptClauses) : IsInstance(e, ExceptClauses[k])}
    IN  IF hits = {} THEN 0
        ELSE CHOOSE k \in hits : \A j \in hits : k <= j

Propagated == [propagated |-> TRUE]

\* Faulty variant of Handler: the names extracted so far are returned too.
HandlerKeepsPartial(f, e) ==
    LET k == MatchingClause(e)
        c == IF k = 0 THEN "none" ELSE ExceptClauses[k]
        msg == IF c = "PermissionDenied" THEN PermissionDeniedMsg
               ELSE IF c = "NotFound" THEN NotFoundMsg(f.project_id, f.region)
               ELSE UnexpectedMsg(e)
    IN  IF k = 0 THEN Propagated
        ELSE IF f.acc = <<>> THEN [error |-> msg]
        ELSE [error |-> msg, services |-> f.acc]

\* The try statement's handlers, run in frame f on the exception e: the value
\* returned, or Propagated when no clause matches.
Handler(f, e) ==
    LET k == MatchingClause(e)
        c == IF k = 0 THEN "none" ELSE ExceptClauses[k]
    IN  IF k = 0 THEN Propagated
        ELSE IF c = "PermissionDenied" THEN [error |-> PermissionDeniedMsg]
        ELSE IF c = "NotFound"
             THEN [error |-> NotFoundMsg(f.project_id, f.region)]
        ELSE [error |-> UnexpectedMsg(e)]

----------------------------------------------------------------------------
(* State.                                                                  *)

VARIABLES
    provider,   \* the provider's state
    pc,         \* pc[i]: where invocation i stands
    frame,      \* the local variables of each call
    result,     \* result[i]: the value invocation i returned
    args,       \* args[i]: the arguments invocation i was called with
    raised,     \* raised[i]: the fault invocation i met
    ops,        \* ops[i]: the provider operations invocation i issued
    began       \* began[i]: whether i was called during another invocation

vars == <<provider, pc, frame, result, args, raised, ops, began>>

\* Faulty variant of Frame: the variables kept at module level, one copy for
\* all calls.
SharedFrame(i) == 1

\* Each call of the function has local variables of its own. (The module's
\* globals PROJECT_ID and REGION, lines 15-16, are set at import and the
\* function reads neither.)
Frame(i) == i

NoResult == [pending |-> TRUE]
NoArgs == [project_id |-> <<>>, region |-> <<>>]
NoPager == [items |-> <<>>, tail |-> NoFault]

\* project_id, region: the parameters; parent, services, service_names: the
\* locals; acc: the list the comprehension is building.
EmptyFrame ==
    [project_id |-> <<>>, region |-> <<>>, parent |-> <<>>,
     services |-> NoPager, acc |-> <<>>, service_names |-> <<>>]

Init ==
    /\ provider \in Providers
    /\ pc = [i \in Procs |-> "idle"]
    /\ frame = [i \in Procs |-> EmptyFrame]
    /\ result = [i \in Procs |-> NoResult]
    /\ args = [i \in Procs |-> NoArgs]
    /\ raised = [i \in Procs |-> NoFault]
    /\ ops = [i \in Procs |-> <<>>]
    /\ began = [i \in Procs |-> "never"]

\* Invocation i meets the fault e: the handlers run and the call ends.
Raise(i, e) ==
    LET r == Handler(frame[Frame(i)], e)
    IN  /\ raised' = [raised EXCEPT ![i] = e]
        /\ pc' = [pc EXCEPT ![i] = IF r = Propagated THEN "propagated" ELSE "done"]
        /\ result' = [result EXCEPT ![i] = IF r = Propagated THEN NoResult ELSE r]
        /\ frame' = [frame EXCEPT ![Frame(i)] = EmptyFrame]

\* The executor calls list_cloud_run_services(project_id, region).
Call(i) ==
    /\ pc[i] = "idle"
    /\ \E p \in ProjectIds, r \in Regions :
        /\ args' = [args EXCEPT ![i] = [project_id |-> p, region |-> r]]
        /\ frame' = [frame EXCEPT ![Frame(i)] =
                        [EmptyFrame EXCEPT !.project_id = p, !.region = r]]
    /\ pc' = [pc EXCEPT ![i] = "construct"]
    /\ began' = [began EXCEPT ![i] =
                    IF \E j \in Procs \ {i} : pc[j] \notin {"idle", "done"}
                    THEN "during" ELSE "alone"]
    /\ UNCHANGED <<provider, result, raised, ops>>

\* Lines 32-33: the client is constructed and the scope string built.
Construct(i) ==
    /\ pc[i] = "construct"
    /\ ops' = [ops EXCEPT ![i] = Append(@, [op |-> "ServicesClient", parent |-> <<>>])]
    /\ IF ProviderConstruct(provider) # NoFault
       THEN Raise(i, ProviderConstruct(provider))
       ELSE /\ frame' = [frame EXCEPT ![Frame(i)].parent =
                            ScopeString(frame[Frame(i)].project_id,
                                        frame[Frame(i)].region)]
            /\ pc' = [pc EXCEPT ![i] = "list"]
            /\ UNCHANGED <<result, raised>>
    /\ UNCHANGED <<provider, args, began>>

\* Line 35: the list call.
ListServices(i) ==
    /\ pc[i] = "list"
    /\ LET parent == frame[Frame(i)].parent
           e == ProviderListFault(provider, parent)
       IN  /\ ops' = [ops EXCEPT ![i] =
                         Append(@, [op |-> "list_services", parent |-> parent])]
           /\ IF e # NoFault
              THEN Raise(i, e)
              ELSE /\ frame' = [frame EXCEPT ![Frame(i)].services =
                                   ProviderPager(provider),
                                             ![Frame(i)].acc = <<>>]
                   /\ pc' = [pc EXCEPT ![i] = "iter"]
                   /\ UNCHANGED <<result, raised>>
    /\ UNCHANGED <<provider, args, began>>

\* Line 37: one step of the comprehension over the lazy sequence: the next
\* descriptor, the fault that ends the sequence, or its end.
NextService(i) ==
    /\ pc[i] = "iter"
    /\ LET f == frame[Frame(i)]
       IN  /\ ops' = [ops EXCEPT ![i] = Append(@, [op |-> "next", parent |-> <<>>])]
           /\ IF f.services.items # <<>>
              THEN /\ frame' = [frame EXCEPT
                                   ![Frame(i)].acc =
                                       Append(f.acc, ShortName(Head(f.services.items))),
                                   ![Frame(i)].services.items =
                                       Tail(f.services.items)]
                   /\ UNCHANGED <<pc, result, raised>>
              ELSE IF f.services.tail # NoFault
              THEN Raise(i, f.services.tail)
              ELSE /\ frame' = [frame EXCEPT ![Frame(i)].service_names = f.acc]
                   /\ pc' = [pc EXCEPT ![i] = "return"]
                   /\ UNCHANGED <<result, raised>>
    /\ UNCHANGED <<provider, args, began>>

\* Lines 39-42.
Return(i) ==
    /\ pc[i] = "return"
    /\ result' = [result EXCEPT ![i] = ReturnValue(frame[Frame(i)].service_names)]
    /\ pc' = [pc EXCEPT ![i] = "done"]
    /\ frame' = [frame EXCEPT ![Frame(i)] = EmptyFrame]
    /\ UNCHANGED <<provider, args, raised, ops, began>>

\* The executor takes the returned value.
Collect(i) ==
    /\ pc[i] = "done"
    /\ pc' = [pc EXCEPT ![i] = "idle"]
    /\ result' = [result EXCEPT ![i] = NoResult]
    /\ args' = [args EXCEPT ![i] = NoArgs]
    /\ raised' = [raised EXCEPT ![i] = NoFault]
    /\ ops' = [ops EXCEPT ![i] = <<>>]
    /\ began' = [began EXCEPT ![i] = "never"]
    /\ UNCHANGED <<provider, frame>>

\* The provider's state changes between calls.
ProviderChange ==
    /\ \A i \in Procs : pc[i] = "idle"
    /\ provider' \in Providers \ {provider}
    /\ UNCHANGED <<pc, frame, result, args, raised, ops, began>>

Next ==
    \/ \E i \in Procs : Call(i)
    \/ \E i \in Procs : Construct(i)
    \/ \E i \in Procs : ListServices(i)
    \/ \E i \in Procs : NextService(i)
    \/ \E i \in Procs : Return(i)
    \/ \E i \in Procs : Collect(i)
    \/ ProviderChange

Spec == Init /\ [][Next]_vars

----------------------------------------------------------------------------
(* Properties.                                                             *)

\* t occurs in s as a contiguous run of tokens.
Contains(s, t) ==
    \E k \in 0..(Len(s) - Len(t)) :
        \A n \in 1..Len(t) : s[k + n] = t[n]

\* What follows the last "/" of s; s itself when it holds none.
LastSegment(s) ==
    LET cuts == {k \in 1..Len(s) : s[k] = "/"}
    IN  IF cuts = {} THEN s
        ELSE LET last == CHOOSE k \in cuts : \A j \in cuts : j <= k
             IN  [n \in 1..(Len(s) - last) |-> s[last + n]]

Keys(r) == DOMAIN r

Done(i) == pc[i] = "done"
Faulted(i) == raised[i] # NoFault

\* The three kinds of failure, told apart by the message.
IsPermissionDeniedMsg(m) ==
    /\ Len(m) >= 1
    /\ m[1] = "Permission denied. Please ensure the agent has the '"
IsNotFoundMsg(m) ==
    /\ Len(m) >= 2
    /\ m[1] = "Project '"
    /\ m[Len(m)] = "' not found."
IsUnexpectedMsg(m) ==
    /\ Len(m) >= 1
    /\ m[1] = "An unexpected error occurred: "
KindsOf(m) ==
    {k \in {"PermissionDenied", "NotFound", "Unexpected"} :
        \/ k = "PermissionDenied" /\ IsPermissionDeniedMsg(m)
        \/ k = "NotFound" /\ IsNotFoundMsg(m)
        \/ k = "Unexpected" /\ IsUnexpectedMsg(m)}

\* C1: a call that consumed the provider's N descriptors without a fault
\* returns a success of exactly N names, in the provider's order, entry k
\* being the last '/'-separated segment of descriptor k's name (the whole
\* name when it holds no '/').
C1_ProviderOrderShortNames ==
    \A i \in Procs :
        (Done(i) /\ ~Faulted(i)) =>
            LET items == provider.script.items
                r == result[i]
            IN  /\ "services" \in Keys(r)
                /\ "error" \notin Keys(r)
                /\ Len(r.services) = Len(items)
                /\ \A k \in 1..Len(items) : r.services[k] = LastSegment(items[k])

C1_Witness ==
    \E i \in Procs :
        /\ Done(i) /\ ~Faulted(i)
        /\ provider.script.items =
               << <<"projects", "/", "p", "/", "services", "/", "b">>, <<"a">> >>
        /\ result[i] = [services |-> << <<"b">>, <<"a">> >>]

\* C2: when the provider returns no descriptor and no fault, the result is a
\* success with an empty 'services', an informational 'message' and no
\* 'error' key.
C2_EmptyListingIsSuccess ==
    \A i \in Procs :
        (Done(i) /\ ~Faulted(i) /\ provider.script.items = <<>>) =>
            /\ Keys(result[i]) = {"services", "message"}
            /\ result[i].services = <<>>
            /\ result[i].message = <<"No Cloud Run services found.">>

C2_Witness ==
    \E i \in Procs :
        /\ Done(i) /\ ~Faulted(i)
        /\ provider.script.items = <<>>
        /\ Len(ops[i]) = 3

\* C3: a permission-denied fault gives a failure of kind PermissionDenied
\* whose message is one fixed string, whatever the project, the region and
\* the fault's text, and that string mentions "Cloud Run Viewer".
C3_PermissionDeniedFixedMessage ==
    \A i \in Procs :
        (Done(i) /\ IsInstance(raised[i], "PermissionDenied")) =>
            /\ Keys(result[i]) = {"error"}
            /\ KindsOf(result[i].error) = {"PermissionDenied"}
            /\ result[i].error =
                   <<"Permission denied. Please ensure the agent has the '",
                     "Cloud Run Viewer", "' role.">>
            /\ Contains(result[i].error, <<"Cloud Run Viewer">>)

C3_Witness ==
    \E i \in Procs :
        /\ Done(i)
        /\ raised[i] = [cls |-> "PermissionDenied", text |-> <<"boom">>]
        /\ args[i] = [project_id |-> <<"p2">>, region |-> <<"r1">>]

\* C4: a not-found fault gives a failure of kind NotFound whose message
\* contains the project_id and the region the call was given.
C4_NotFoundNamesProjectAndRegion ==
    \A i \in Procs :
        (Done(i) /\ IsInstance(raised[i], "NotFound")) =>
            /\ Keys(result[i]) = {"error"}
            /\ KindsOf(result[i].error) = {"NotFound"}
            /\ Contains(result[i].error, args[i].project_id)
            /\ Contains(result[i].error, args[i].region)

C4_Witness ==
    \E i \in Procs :
        /\ Done(i)
        /\ IsInstance(raised[i], "NotFound")
        /\ args[i] = [project_id |-> <<"p1">>, region |-> <<"r2">>]
        /\ ProviderScope(provider) = ScopeString(<<"p1">>, <<"r2">>)

\* C5: a fault that is neither permission-denied nor not-found gives a
\* failure of kind Unexpected whose message contains the fault's text; every
\* failure has exactly one of the three kinds, the one its fault maps to.
C5_OtherFaultsUnexpected ==
    \A i \in Procs :
        (Done(i) /\ Faulted(i)) =>
            /\ "error" \in Keys(result[i])
            /\ KindsOf(result[i].error) =
                   {IF IsInstance(raised[i], "PermissionDenied") THEN "PermissionDenied"
                    ELSE IF IsInstance(raised[i], "NotFound") THEN "NotFound"
                    ELSE "Unexpected"}
            /\ (~IsInstance(raised[i], "PermissionDenied")
                   /\ ~IsInstance(raised[i], "NotFound"))
                  => Contains(result[i].error, raised[i].text)

C5_Witness ==
    \E i \in Procs :
        /\ Done(i)
        /\ raised[i] = [cls |-> "Forbidden", text |-> <<"boom">>]
        /\ result[i].error = <<"An unexpected error occurred: ", "boom">>

\* C6: no fault leaves the function: whichever step raised it, the call has
\* ended with a returned value.
C6_NoFaultPropagates ==
    \A i \in Procs :
        /\ pc[i] # "propagated"
        /\ Faulted(i) => (Done(i) /\ result[i] # NoResult)

C6_Witness ==
    \E i, j \in Procs :
        /\ Done(i) /\ Done(j)
        /\ raised[i].cls = "RuntimeError"
        /\ [n \in 1..Len(ops[i]) |-> ops[i][n].op] =
               <<"ServicesClient", "list_services", "next", "next">>
        /\ raised[j].cls = "NotFound"
        /\ [n \in 1..Len(ops[j]) |-> ops[j][n].op] =
               <<"ServicesClient", "list_services">>

\* C7: a returned value has exactly one of the keys 'services' and 'error';
\* a fault after some descriptors were yielded gives a failure without
\* 'services'.
C7_ServicesXorError ==
    \A i \in Procs :
        Done(i) =>
            /\ ("services" \in Keys(result[i])) # ("error" \in Keys(result[i]))
            /\ Faulted(i) => "services" \notin Keys(result[i])

C7_Witness ==
    \E i \in Procs :
        /\ Done(i) /\ Faulted(i)
        /\ provider.script.at = "iter"
        /\ Len(provider.script.items) >= 1
        /\ Len(ops[i]) = Len(provider.script.items) + 3

\* C8: two calls with the same arguments against the same provider state
\* return the same value.
C8_SameCallSameResult ==
    \A i, j \in Procs :
        (Done(i) /\ Done(j) /\ args[i] = args[j]) => result[i] = result[j]

C8_Witness ==
    \E i, j \in Procs :
        /\ i # j
        /\ Done(i) /\ Done(j)
        /\ args[i] = args[j]
        /\ began[i] = "alone" /\ began[j] = "alone"
        /\ "services" \in Keys(result[j])
        /\ Len(result[j].services) = 2

\* The value one call alone returns for the arguments a from the provider pv.
RunAlone(a, pv) ==
    LET f == [EmptyFrame EXCEPT !.project_id = a.project_id, !.region = a.region]
        parent == ScopeString(a.project_id, a.region)
    IN  IF ProviderConstruct(pv) # NoFault THEN Handler(f, ProviderConstruct(pv))
        ELSE IF ProviderListFault(pv, parent) # NoFault
             THEN Handler(f, ProviderListFault(pv, parent))
        ELSE IF ProviderPager(pv).tail # NoFault
             THEN Handler(f, ProviderPager(pv).tail)
        ELSE ReturnValue([k \in 1..Len(pv.script.items) |->
                             ShortName(pv.script.items[k])])

C9_ResultAsAlone ==
    \A i \in Procs : Done(i) => result[i] = RunAlone(args[i], provider)

\* A step changes the local variables of the one invocation that takes it.
C9_OwnFrameOnly ==
    \A j \in Procs :
        frame'[j] # frame[j] => (pc'[j] # pc[j] \/ ops'[j] # ops[j])

\* C9: invocations that run concurrently share no state: under every
\* interleaving each returns what it returns when run alone against the same
\* provider, and no step of one changes what another one holds.
C9_ConcurrentInvocationsIndependent ==
    /\ []C9_ResultAsAlone
    /\ [][C9_OwnFrameOnly]_vars

C9_Witness ==
    \E i, j \in Procs :
        /\ i # j
        /\ Done(i) /\ Done(j)
        /\ began[j] = "during"
        /\ args[i] # args[j]
        /\ ~Faulted(i)
        /\ Len(result[i].services) = 2

ListOps(i) == {n \in 1..Len(ops[i]) : ops[i][n].op = "list_services"}
NextOps(i) == {n \in 1..Len(ops[i]) : ops[i][n].op = "next"}

C10_OneAddressedCall ==
    \A i \in Procs :
        /\ Cardinality(ListOps(i)) <= 1
        /\ \A n \in ListOps(i) :
               ops[i][n].parent =
                   <<"projects/">> \o args[i].project_id
                       \o <<"/locations/">> \o args[i].region
        /\ Cardinality(NextOps(i)) <= Len(provider.script.items) + 1
        /\ Faulted(i) => (Done(i) /\ "error" \in Keys(result[i]))

\* After a fault an invocation issues no provider operation.
C10_NoCallAfterFault ==
    \A i \in Procs :
        Faulted(i) => (ops'[i] = ops[i] \/ pc'[i] = "idle")

\* C10: a call issues the list operation at most once, addressed by
\* 'projects/{project_id}/locations/{region}' built from its arguments, and
\* passes once over the sequence; after a fault it issues no further provider
\* operation and has returned the failure.
C10_SingleCallNoRetry ==
    /\ []C10_OneAddressedCall
    /\ [][C10_NoCallAfterFault]_vars

C10_Witness ==
    \E i \in Procs :
        /\ Done(i) /\ Faulted(i)
        /\ Cardinality(ListOps(i)) = 1
        /\ Cardinality(NextOps(i)) = 2
        /\ args[i] = [project_id |-> <<"p2">>, region |-> <<"r1">>]

====
